---------------------------- MODULE Spec2Model ----------------------------
(***************************************************************************)
(* Model of the video-compression HTTP server of go/examples/api-usage.go: *)
(* the encoding-policy decision engine (parseOpts, normalize,              *)
(* chooseSpeedBySize, tinyInputSafety, applySpeedMode, applyResolution,    *)
(* buildFFmpegArgs), the transcode invoker runFFmpeg with its              *)
(* hardware-to-software retry, and the part of compressHandler that        *)
(* strings them together and answers the request.                          *)
(***************************************************************************)
EXTENDS Integers, Sequences, FiniteSets, TLC

VARIABLES
    pc,          \* position of compressHandler: idle | run1 | run2 | done
    form,        \* the multipart form of the request and the uploaded file
    inputBytes,  \* st.Size() of the saved upload
    opts,        \* compressHandler's opts (a compressOpts struct)
    modeDecider, \* compressHandler's modeDecider
    runs,        \* one record per cmd.Run() call of runFFmpeg
    exits,       \* one record per transcoder process that exited
    ctxDone,     \* r.Context() is cancelled
    outFile,     \* the file at outPath: size in bytes (-1: absent) and frame
    resp,        \* the response written, status 0 while there is none
    store,       \* the map store: id -> resultEntry
    fs,          \* files of os.TempDir(): path -> the request that wrote it last
    conn,        \* the requests in flight when several are served at once
    node         \* the decisions of the Node server on the same input

vars == <<pc, form, inputBytes, opts, modeDecider, runs, exits, ctxDone, outFile, resp,
          store, fs, conn, node>>

\* the state outside one request of compressHandler
otherVars == <<fs, conn, node>>

-----------------------------------------------------------------------------
(* Strings.  TLC strings are atomic, so the string functions of the Go     *)
(* library are tabulated over the strings the model uses.                  *)

\* strings.ToLower
ToLower(s) ==
    CASE s = "COPY" -> "copy"
      [] s = "VideoToolbox" -> "videotoolbox"
      [] s = ".MP4" -> ".mp4"
      [] OTHER -> s

\* strings.Contains(s, "videotoolbox")
ContainsVideotoolbox(s) == s \in {"videotoolbox", "videotoolbox2"}

\* strconv.Atoi over the fps form values of the model: <<n, err = nil>>
Atoi(s) ==
    CASE s = "-5" -> <<-5, TRUE>>
      [] s = "0" -> <<0, TRUE>>
      [] s = "1" -> <<1, TRUE>>
      [] s = "30" -> <<30, TRUE>>
      [] s = "60" -> <<60, TRUE>>
      [] s = "61" -> <<61, TRUE>>
      [] OTHER -> <<0, FALSE>>

MiB == 1024 * 1024

-----------------------------------------------------------------------------
(* compressOpts and the functions that fill it in.                         *)

\* the zero value of the struct
ZeroOpts ==
    [Codec |-> "", CRF |-> 0, Preset |-> "", Scale |-> "", FPS |-> 0,
     Audio |-> "", AB |-> "", HW |-> "", OutExt |-> "", SpeedMode |-> "",
     Resolution |-> ""]

applyResolution(o) ==
    CASE o.Resolution = "360p" -> [o EXCEPT !.Scale = "640:360"]
      [] o.Resolution = "480p" -> [o EXCEPT !.Scale = "854:480"]
      [] o.Resolution = "720p" -> [o EXCEPT !.Scale = "1280:720"]
      [] o.Resolution = "1080p" -> [o EXCEPT !.Scale = "1920:1080"]
      [] o.Resolution = "1440p" -> [o EXCEPT !.Scale = "2560:1440"]
      [] o.Resolution = "2160p" -> [o EXCEPT !.Scale = "3840:2160"]
      [] OTHER -> o

normalize(o) ==
    LET o1 == IF o.Codec = "" THEN [o EXCEPT !.Codec = "h264"] ELSE o
        o2 == IF o1.Audio = "" THEN [o1 EXCEPT !.Audio = "aac"] ELSE o1
        o3 == IF o2.AB = "" THEN [o2 EXCEPT !.AB = "128k"] ELSE o2
        o4 == IF o3.HW = "" THEN [o3 EXCEPT !.HW = "none"] ELSE o3
        o5 == IF o4.OutExt = "" THEN [o4 EXCEPT !.OutExt = ".mp4"] ELSE o4
        o6 == IF o5.SpeedMode = "" THEN [o5 EXCEPT !.SpeedMode = "ai"] ELSE o5
        o7 == IF o6.Resolution = "" THEN [o6 EXCEPT !.Resolution = "original"] ELSE o6
    IN  applyResolution(o7)

chooseSpeedBySize(sizeMB) ==
    CASE sizeMB >= 700 -> "ultra_fast"
      [] sizeMB < 700 /\ sizeMB >= 200 -> "super_fast"
      [] sizeMB < 200 /\ sizeMB >= 50 -> "fast"
      [] sizeMB < 50 /\ sizeMB >= 10 -> "balanced"
      [] OTHER -> "balanced"

\* mutant: the default branch serves the mode balanced alone
applySpeedModeKnownOnly(o) ==
    CASE o.SpeedMode = "turbo" ->
            [o EXCEPT !.CRF = 34, !.Preset = "ultrafast", !.AB = "96k"]
      [] o.SpeedMode = "max" ->
            [o EXCEPT !.CRF = 36, !.Preset = "ultrafast", !.AB = "64k"]
      [] o.SpeedMode = "ultra_fast" ->
            [o EXCEPT !.CRF = 32, !.Preset = "ultrafast", !.AB = "96k"]
      [] o.SpeedMode = "super_fast" ->
            [o EXCEPT !.CRF = 30, !.Preset = "ultrafast", !.AB = "96k"]
      [] o.SpeedMode = "fast" ->
            [o EXCEPT !.CRF = 28, !.Preset = "veryfast", !.AB = "128k"]
      [] o.SpeedMode = "quality" ->
            [o EXCEPT !.CRF = 23, !.Preset = "fast", !.AB = "128k"]
      [] o.SpeedMode = "balanced" ->
            [o EXCEPT !.CRF = IF o.CRF = 0 THEN 26 ELSE o.CRF,
                      !.Preset = IF o.Preset = "" THEN "veryfast" ELSE o.Preset]
      [] OTHER -> o

applySpeedMode(o) ==
    CASE o.SpeedMode = "turbo" ->
            [o EXCEPT !.CRF = 34, !.Preset = "ultrafast", !.AB = "96k"]
      [] o.SpeedMode = "max" ->
            [o EXCEPT !.CRF = 36, !.Preset = "ultrafast", !.AB = "64k"]
      [] o.SpeedMode = "ultra_fast" ->
            [o EXCEPT !.CRF = 32, !.Preset = "ultrafast", !.AB = "96k"]
      [] o.SpeedMode = "super_fast" ->
            [o EXCEPT !.CRF = 30, !.Preset = "ultrafast", !.AB = "96k"]
      [] o.SpeedMode = "fast" ->
            [o EXCEPT !.CRF = 28, !.Preset = "veryfast", !.AB = "128k"]
      [] o.SpeedMode = "quality" ->
            [o EXCEPT !.CRF = 23, !.Preset = "fast", !.AB = "128k"]
      [] OTHER ->
            [o EXCEPT !.CRF = IF o.CRF = 0 THEN 26 ELSE o.CRF,
                      !.Preset = IF o.Preset = "" THEN "veryfast" ELSE o.Preset]

tinyInputSafety(o, fileSize) ==
    LET sizeMB == fileSize \div MiB
    IN  IF sizeMB < 10
        THEN [o EXCEPT !.Codec = "h264", !.Audio = "aac", !.Scale = "",
                       !.CRF = 22, !.Preset = "veryfast", !.HW = "none"]
        ELSE o

\* the closure get of parseOpts
get(f, key, def) == IF f[key] # "" THEN f[key] ELSE def

\* mutant: takes every fps that parses, without the 1..60 range test
parseFPSUnchecked(f) ==
    LET fpsStr == get(f, "fps", "")
        n == Atoi(fpsStr)
    IN  IF fpsStr # "" /\ n[2] /\ n[1] > 0 THEN n[1] ELSE 0

parseFPS(f) ==
    LET fpsStr == get(f, "fps", "")
        n == Atoi(fpsStr)
    IN  IF fpsStr # "" /\ n[2] /\ n[1] > 0 /\ n[1] <= 60 THEN n[1] ELSE 0

parseOpts(f) ==
    normalize([ZeroOpts EXCEPT
        !.Codec = get(f, "codec", "h264"),
        !.Audio = get(f, "audio", "aac"),
        !.AB = get(f, "ab", ""),
        !.HW = get(f, "hw", "none"),
        !.OutExt = get(f, "outExt", ".mp4"),
        !.SpeedMode = get(f, "speed", "ai"),
        !.Resolution = get(f, "resolution", "original"),
        !.FPS = parseFPS(f)])

-----------------------------------------------------------------------------
(* buildFFmpegArgs, section by section in the order the code appends.      *)

\* mutant: compares the codec without lowering its case
reencodesExactCase(o) == o.Codec # "copy"

reencodes(o) == ToLower(o.Codec) # "copy"

hwOn(o) == ToLower(o.HW) = "videotoolbox"

TurboVF == "scale='if(gt(a,1),-2,720)':'if(gt(a,1),720,-2)':flags=fast_bilinear,setsar=1"

MaxVF == "scale='if(gt(a,1),-2,480)':'if(gt(a,1),480,-2)':flags=fast_bilinear,setsar=1"

\* mutant: a fixed Scale takes precedence over the turbo/max filter
videoFilterScaleFirst(o) ==
    IF reencodes(o)
    THEN IF o.Scale # ""
         THEN "scale=" \o o.Scale \o ":flags=fast_bilinear,setsar=1"
         ELSE CASE o.SpeedMode = "turbo" -> TurboVF
                [] o.SpeedMode = "max" -> MaxVF
                [] OTHER -> ""
    ELSE ""

\* the local vf
videoFilter(o) ==
    IF reencodes(o)
    THEN CASE o.SpeedMode = "turbo" -> TurboVF
           [] o.SpeedMode = "max" -> MaxVF
           [] OTHER -> IF o.Scale # ""
                       THEN "scale=" \o o.Scale \o ":flags=fast_bilinear,setsar=1"
                       ELSE ""
    ELSE ""

\* o.FPS after the turbo/max default (o is buildFFmpegArgs's own copy)
effectiveFPS(o) ==
    IF reencodes(o) /\ o.SpeedMode \in {"turbo", "max"} /\ o.FPS = 0
    THEN 24
    ELSE o.FPS

\* the local vcodec
vcodecOf(o) ==
    CASE ToLower(o.Codec) = "copy" -> "copy"
      [] ToLower(o.Codec) = "h265" ->
            IF hwOn(o) THEN "hevc_videotoolbox" ELSE "libx265"
      [] OTHER ->
            IF hwOn(o) THEN "h264_videotoolbox" ELSE "libx264"

\* mutant: the ladder alone, without the turbo override
hwBitrateLadderOnly(o) ==
    CASE o.CRF <= 20 -> "5M"
      [] o.CRF > 20 /\ o.CRF <= 23 -> "4M"
      [] o.CRF > 23 /\ o.CRF <= 26 -> "3M"
      [] o.CRF > 26 /\ o.CRF <= 30 -> "2.5M"
      [] o.CRF > 30 /\ o.CRF <= 36 -> "2M"
      [] OTHER -> "1500k"

\* the CRF -> bitrate ladder of the hardware encoders
hwBitrate(o) ==
    LET ladder == CASE o.CRF <= 20 -> "5M"
                    [] o.CRF > 20 /\ o.CRF <= 23 -> "4M"
                    [] o.CRF > 23 /\ o.CRF <= 26 -> "3M"
                    [] o.CRF > 26 /\ o.CRF <= 30 -> "2.5M"
                    [] o.CRF > 30 /\ o.CRF <= 36 -> "2M"
                    [] OTHER -> "1500k"
    IN  IF o.SpeedMode = "turbo" THEN "2500k" ELSE ladder

baseArgs(inPath, o) ==
    <<"-y", "-hide_banner", "-loglevel", "error">>
    \o (IF hwOn(o)
        THEN <<"-hwaccel", "videotoolbox", "-hwaccel_output_format", "videotoolbox">>
        ELSE <<>>)
    \o <<"-i", inPath>>

filterArgs(o) ==
    IF videoFilter(o) # "" THEN <<"-vf", videoFilter(o)>> ELSE <<>>

fpsArgs(o) ==
    IF effectiveFPS(o) > 0 /\ reencodes(o)
    THEN <<"-r", ToString(effectiveFPS(o))>>
    ELSE <<>>

\* mutant: the hardware encoders are given -crf and -preset as well
rateArgsCrfForAll(o) ==
    IF vcodecOf(o) = "copy"
    THEN <<>>
    ELSE <<"-crf", ToString(o.CRF), "-preset", o.Preset>>
         \o (IF vcodecOf(o) \in {"h264_videotoolbox", "hevc_videotoolbox"}
             THEN <<"-b:v", hwBitrate(o)>>
             ELSE <<>>)

rateArgs(o) ==
    CASE vcodecOf(o) \in {"libx264", "libx265"} ->
            <<"-crf", ToString(o.CRF), "-preset", o.Preset>>
      [] vcodecOf(o) \in {"h264_videotoolbox", "hevc_videotoolbox"} ->
            <<"-b:v", hwBitrate(o)>>
      [] OTHER -> <<>>

pixFmtArgs(o) ==
    IF ToLower(o.OutExt) = ".mp4" THEN <<"-pix_fmt", "yuv420p">> ELSE <<>>

codecArgs(o) ==
    IF vcodecOf(o) = "copy"
    THEN <<"-c:v", "copy">>
    ELSE <<"-c:v", vcodecOf(o)>> \o rateArgs(o) \o pixFmtArgs(o)

X264Params == "no-scenecut=1:ref=1:bframes=0:me=dia:subme=0:trellis=0:aq-mode=0:fast_pskip=1:sync-lookahead=0:rc-lookahead=0"

tuneArgs(o) ==
    IF o.SpeedMode = "max" \/ o.SpeedMode = "turbo"
    THEN CASE vcodecOf(o) = "libx264" ->
                <<"-tune", "fastdecode,zerolatency", "-g", "300", "-keyint_min", "300",
                  "-x264-params", X264Params>>
           [] vcodecOf(o) = "libx265" ->
                <<"-tune", "fastdecode", "-g", "300", "-keyint_min", "300">>
           [] vcodecOf(o) \in {"h264_videotoolbox", "hevc_videotoolbox"} ->
                <<"-realtime", "true", "-g", "300">>
           [] OTHER -> <<>>
    ELSE <<>>

audioArgs(o) ==
    CASE ToLower(o.Audio) = "copy" -> <<"-c:a", "copy">>
      [] ToLower(o.Audio) = "opus" -> <<"-c:a", "libopus", "-b:a", o.AB>>
      [] OTHER ->
            <<"-c:a", "aac", "-b:a", o.AB>>
            \o (CASE o.SpeedMode = "turbo" -> <<"-ac", "2", "-b:a", "96k">>
                  [] o.SpeedMode = "max" -> <<"-ac", "1", "-b:a", "64k">>
                  [] OTHER -> <<>>)

tailArgs(outPath) == <<"-movflags", "+faststart", "-threads", "0", outPath>>

\* mutant: the speed-tuning flags are appended before the video codec
buildFFmpegArgsTuneFirst(inPath, outPath, o) ==
    baseArgs(inPath, o) \o filterArgs(o) \o fpsArgs(o) \o tuneArgs(o)
    \o codecArgs(o) \o audioArgs(o) \o tailArgs(outPath)

buildFFmpegArgs(inPath, outPath, o) ==
    baseArgs(inPath, o) \o filterArgs(o) \o fpsArgs(o) \o codecArgs(o)
    \o tuneArgs(o) \o audioArgs(o) \o tailArgs(outPath)

-----------------------------------------------------------------------------
(* What the transcoder does with the emitted scale filter.  a = iw/ih, so  *)
(* gt(a,1) is iw > ih; -2 asks for the dimension that keeps the aspect     *)
(* ratio, rounded to an even number.                                       *)

\* mutant: the two branches of if(gt(a,1),..) exchanged
orientScaleFlipped(target, iw, ih) ==
    <<IF iw > ih THEN target ELSE -2, IF iw > ih THEN -2 ELSE target>>

\* 'if(gt(a,1),-2,T)':'if(gt(a,1),T,-2)' evaluated on an iw x ih input
orientScale(target, iw, ih) ==
    <<IF iw > ih THEN -2 ELSE target, IF iw > ih THEN target ELSE -2>>

\* the fixed W:H strings of applyResolution as numbers
fixedScale(scale) ==
    CASE scale = "640:360" -> <<640, 360>>
      [] scale = "854:480" -> <<854, 480>>
      [] scale = "1280:720" -> <<1280, 720>>
      [] scale = "1920:1080" -> <<1920, 1080>>
      [] scale = "2560:1440" -> <<2560, 1440>>
      [] scale = "3840:2160" -> <<3840, 2160>>

\* the width:height the filter of o asks for on an iw x ih input
scaleRequest(o, iw, ih) ==
    CASE videoFilter(o) = "" -> <<iw, ih>>
      [] videoFilter(o) = TurboVF -> orientScale(720, iw, ih)
      [] videoFilter(o) = MaxVF -> orientScale(480, iw, ih)
      [] OTHER -> fixedScale(o.Scale)

evenRound(num, den) == 2 * ((num + den) \div (2 * den))

\* the output frame: -2 resolved against the input's aspect ratio
scaledFrame(o, iw, ih) ==
    LET r == scaleRequest(o, iw, ih)
    IN  <<IF r[1] = -2 THEN evenRound(r[2] * iw, ih) ELSE r[1],
          IF r[2] = -2 THEN evenRound(r[1] * ih, iw) ELSE r[2]>>

-----------------------------------------------------------------------------
(* compressHandler up to the call of runFFmpeg.                            *)

\* filepath.Join(os.TempDir(), filepath.Base(hdr.Filename))
inPathOf(f) == [dir |-> "/tmp", stem |-> f.stem, ext |-> f.ext]

pathString(p) == p.dir \o "/" \o p.stem \o p.ext

withExt(p, newExt) == p.dir \o "/" \o p.stem \o newExt

\* mutant: the first pass alone, without the 200-2048 MB refinement
decideModeFirstPass(speedMode, sizeMB) ==
    IF speedMode = "ai"
    THEN <<chooseSpeedBySize(sizeMB), "ai">>
    ELSE <<speedMode, "manual">>

\* mutant: the refinement splits the band below 250 MB instead of at it
decideModeBelow250(speedMode, sizeMB) ==
    IF speedMode = "ai"
    THEN <<IF sizeMB >= 200 /\ sizeMB < 2048
           THEN IF sizeMB < 250 THEN "balanced" ELSE "ultra_fast"
           ELSE chooseSpeedBySize(sizeMB),
           "ai">>
    ELSE <<speedMode, "manual">>

\* mutant: the selector runs for every requested mode
decideModeAlways(speedMode, sizeMB) ==
    <<IF sizeMB >= 200 /\ sizeMB < 2048
      THEN IF sizeMB <= 250 THEN "balanced" ELSE "ultra_fast"
      ELSE chooseSpeedBySize(sizeMB),
      "ai">>

\* "Decide final mode if AI (size-only)": <<final mode, modeDecider>>
decideMode(speedMode, sizeMB) ==
    IF speedMode = "ai"
    THEN LET base == chooseSpeedBySize(sizeMB)
         IN  <<IF sizeMB >= 200 /\ sizeMB < 2048
               THEN IF sizeMB <= 250 THEN "balanced" ELSE "ultra_fast"
               ELSE base,
               "ai">>
    ELSE <<speedMode, "manual">>

\* opts as compressHandler passes it to runFFmpeg
handlerOpts(f) ==
    LET parsed == parseOpts(f)
        sizeMB == f.size \div MiB
        decided == [parsed EXCEPT !.SpeedMode = decideMode(parsed.SpeedMode, sizeMB)[1]]
    IN  applySpeedMode(tinyInputSafety(decided, f.size))

outPathOf(f) == withExt(inPathOf(f), "_compressed" \o handlerOpts(f).OutExt)

\* one cmd.Run() of runFFmpeg with its o
runRecord(f, o, started) ==
    [o |-> o,
     args |-> buildFFmpegArgs(pathString(inPathOf(f)), outPathOf(f), o),
     started |-> started]

-----------------------------------------------------------------------------
(* The requests of the model.  A form field left out of the request is "". *)

Speeds == {"", "ai", "turbo", "max", "ultra_fast", "super_fast", "fast",
           "balanced", "quality", "slow"}

Resolutions == {"", "original", "360p", "480p", "720p", "1080p", "1440p",
                "2160p", "4k"}

Codecs == {"", "h265", "copy", "COPY", "vp9"}

Audios == {"", "opus", "copy", "mp3"}

HWs == {"", "videotoolbox", "VideoToolbox", "videotoolbox2"}

FPSs == {"", "abc", "-5", "0", "1", "30", "60", "61"}

OutExts == {"", ".MP4", ".mov"}

ABs == {"", "192k"}

Frames == {<<1920, 1080>>, <<1080, 1920>>, <<640, 640>>, <<320, 240>>}

SizeMBs == {0, 5, 10, 49, 50, 55, 199, 200, 250, 251, 699, 700, 2047}

Sizes ==
    {mb * MiB : mb \in SizeMBs}
    \cup {10 * MiB - 1, 250 * MiB + 1, 2047 * MiB + (MiB - 1)}

BaseForm ==
    [speed |-> "", resolution |-> "", codec |-> "", audio |-> "", ab |-> "",
     hw |-> "", outExt |-> "", fps |-> "", stem |-> "clip", ext |-> ".mov",
     size |-> 55 * MiB, frame |-> <<1920, 1080>>]

\* every mode at every size, with the fields the size policy overwrites
SizeSweep ==
    {[BaseForm EXCEPT !.speed = s, !.size = z, !.hw = h, !.codec = c,
                      !.resolution = r] :
        s \in Speeds, z \in Sizes, h \in HWs, c \in {"", "h265", "copy"},
        r \in {"", "720p"}}

\* the remaining fields, one family at a time
Tweaks ==
    {[BaseForm EXCEPT !.resolution = r] : r \in Resolutions}
    \cup {[BaseForm EXCEPT !.audio = a, !.ab = b] : a \in Audios, b \in ABs}
    \cup {[BaseForm EXCEPT !.fps = n] : n \in FPSs}
    \cup {[BaseForm EXCEPT !.outExt = e] : e \in OutExts}

\* every mode and codec with every tweak, below and above the 10 MB limit
OptionSweep ==
    {[t EXCEPT !.speed = s, !.codec = c, !.hw = h, !.size = z] :
        t \in Tweaks, s \in Speeds, c \in Codecs, h \in {"", "videotoolbox"},
        z \in {5 * MiB, 55 * MiB}}

\* the frame shapes, for the modes that scale
FrameSweep ==
    {[BaseForm EXCEPT !.speed = s, !.frame = fr, !.codec = c, !.resolution = r,
                      !.size = z] :
        s \in {"turbo", "max", "balanced"}, fr \in Frames, c \in {"", "copy"},
        r \in {"", "720p"}, z \in {5 * MiB, 55 * MiB}}

Requests == SizeSweep \cup OptionSweep \cup FrameSweep

\* sizes of the output file after a transcode: absent, below and at the minimum
OutSizes == {-1, 1023, 1024}

-----------------------------------------------------------------------------
(* State machine.                                                          *)

NoForm == [BaseForm EXCEPT !.stem = "", !.ext = "", !.size = 0, !.frame = <<0, 0>>]

NoResp == [status |-> 0, kind |-> "none", meta |-> <<>>]

NoFile == [size |-> -1, frame |-> <<0, 0>>]

\* var store = map[string]*resultEntry{}
NoEntries == <<>>

NoFiles == <<>>

NoConn == <<>>

NoNode == [speedMode |-> "", codec |-> "", decided |-> FALSE]

Init ==
    /\ pc = "idle"
    /\ form = NoForm
    /\ inputBytes = 0
    /\ opts = ZeroOpts
    /\ modeDecider = ""
    /\ runs = <<>>
    /\ exits = <<>>
    /\ ctxDone = FALSE
    /\ outFile = NoFile
    /\ resp = NoResp
    /\ store = NoEntries
    /\ fs = NoFiles
    /\ conn = NoConn
    /\ node = NoNode

\* http.Error(w, msg, code)
httpError(code, msg) == [status |-> code, kind |-> "error", meta |-> msg]

\* the metadata of the X- headers (API mode) and of the resultEntry (UI mode)
resultMeta(outputBytes) ==
    [Mode |-> opts.SpeedMode, ModeDecider |-> modeDecider,
     InputBytes |-> inputBytes, OutputBytes |-> outputBytes,
     Resolution |-> opts.Resolution, Codec |-> opts.Codec,
     Audio |-> opts.Audio, HW |-> opts.HW]

\* compressHandler from "validate output" to the end, given the file at outPath
respond(file, api) ==
    IF file.size < 0
    THEN [status |-> 0, kind |-> "panic", meta |-> "stat.Size() on a nil FileInfo"]
    ELSE IF file.size < 1024
    THEN httpError(500, "output seems empty or invalid")
    ELSE [status |-> 200, kind |-> IF api THEN "api" ELSE "ui",
          meta |-> resultMeta(file.size)]

\* entry := &resultEntry{FilePath: outPath, ...}
resultEntry(outPath, meta) == [FilePath |-> outPath, meta |-> meta]

\* id := randID(12): 12 random bytes, taken to differ from every stored id
newID(entries) == Cardinality(DOMAIN entries) + 1

\* mutant: the entry is stored for an API-mode response as well
storeAfterAnyMode(entries, kind, entry) ==
    IF kind \in {"ui", "api"}
    THEN entries @@ (newID(entries) :> entry)
    ELSE entries

\* the store after compressHandler answered: store[id] = entry in UI mode only
storeAfter(entries, kind, entry) ==
    IF kind = "ui"
    THEN entries @@ (newID(entries) :> entry)
    ELSE entries

\* POST /compress that is no multipart form, or has no file field
Reject ==
    /\ pc = "idle"
    /\ pc' = "done"
    /\ \E msg \in {"expecting multipart/form-data", "file field required"} :
          resp' = httpError(400, msg)
    /\ UNCHANGED <<form, inputBytes, opts, modeDecider, runs, exits, ctxDone, outFile,
                 store, otherVars>>

\* POST /compress with a form of Requests, up to the first cmd.Run() of runFFmpeg
Compress ==
    /\ pc = "idle"
    /\ pc' = "run1"
    /\ \E f \in Requests :
          /\ form' = f
          /\ inputBytes' = f.size
          /\ opts' = handlerOpts(f)
          /\ modeDecider' = decideMode(parseOpts(f).SpeedMode, f.size \div MiB)[2]
          /\ runs' = <<runRecord(f, normalize(handlerOpts(f)), TRUE)>>
    /\ UNCHANGED <<exits, ctxDone, outFile, resp,
                 store, otherVars>>

\* the client goes away while a transcoder runs
Cancel ==
    /\ pc \in {"run1", "run2"}
    /\ ~ctxDone
    /\ ctxDone' = TRUE
    /\ UNCHANGED <<pc, form, inputBytes, opts, modeDecider, runs, exits, outFile, resp,
                 store, otherVars>>

\* the running transcoder exits zero: runFFmpeg returns nil, the handler answers
ExitZero ==
    /\ pc \in {"run1", "run2"}
    /\ pc' = "done"
    /\ exits' = Append(exits, [code |-> 0, cancelled |-> ctxDone])
    /\ \E size \in OutSizes, api \in BOOLEAN :
          /\ outFile' = [size |-> size,
                         frame |-> IF size >= 0
                                   THEN scaledFrame(runs[Len(runs)].o,
                                                    form.frame[1], form.frame[2])
                                   ELSE <<0, 0>>]
          /\ resp' = respond(outFile', api)
          /\ store' = storeAfter(store, resp'.kind,
                                 resultEntry(outPathOf(form), resp'.meta))
    /\ UNCHANGED <<form, inputBytes, opts, modeDecider, runs, ctxDone, otherVars>>

\* the o of the retry of runFFmpeg
retryOpts(o) == [o EXCEPT !.HW = "none"]

\* mutant: retries whatever the hardware setting
wantsRetryAlways(o) == TRUE

\* the test that decides whether runFFmpeg retries
wantsRetry(o) == ContainsVideotoolbox(ToLower(o.HW))

\* exit statuses of a transcoder that fails
FailCodes == {1, 2}

\* (*exec.ExitError).Error() of a process that exited with code
exitError(code) == "exit status " \o ToString(code)

\* mutant: Start spawns a process whatever the state of the context
spawnsAlways(done) == TRUE

\* (*exec.Cmd).Start spawns a process unless the command's context is done
spawns(done) == ~done

\* mutant: after a retry runFFmpeg returns the first attempt's error
runFFmpegErrorFirst(firstErr, retryErr) == firstErr

\* the error runFFmpeg returns after a retry: err = cmd.Run(); return err
runFFmpegError(firstErr, retryErr) == retryErr

\* the first transcoder exits non-zero (on its own, or killed by the context):
\* runFFmpeg retries on the CPU or returns the error
FirstFails ==
    /\ pc = "run1"
    /\ \E code \in FailCodes :
          /\ exits' = Append(exits, [code |-> code, cancelled |-> ctxDone])
          /\ IF wantsRetry(runs[1].o)
             THEN /\ runs' = Append(runs, runRecord(form, retryOpts(runs[1].o),
                                                   spawns(ctxDone)))
                  /\ IF spawns(ctxDone)
                     THEN /\ pc' = "run2"
                          /\ resp' = resp
                     ELSE /\ pc' = "done"
                          /\ resp' = httpError(500, "compression failed: "
                                  \o runFFmpegError(exitError(code), "context canceled"))
             ELSE /\ runs' = runs
                  /\ pc' = "done"
                  /\ resp' = httpError(500, "compression failed: " \o exitError(code))
    /\ UNCHANGED <<form, inputBytes, opts, modeDecider, ctxDone, outFile,
                 store, otherVars>>

\* the retry exits non-zero: runFFmpeg returns its error
RetryFails ==
    /\ pc = "run2"
    /\ pc' = "done"
    /\ \E code \in FailCodes :
          /\ exits' = Append(exits, [code |-> code, cancelled |-> ctxDone])
          /\ resp' = httpError(500, "compression failed: "
                  \o runFFmpegError(exitError(exits[1].code), exitError(code)))
    /\ UNCHANGED <<form, inputBytes, opts, modeDecider, runs, ctxDone, outFile,
                 store, otherVars>>

Next ==
    \/ Reject
    \/ Compress
    \/ Cancel
    \/ ExitZero
    \/ FirstFails
    \/ RetryFails

Spec == Init /\ [][Next]_vars

-----------------------------------------------------------------------------
(* buildFFmpegArgs on its own: a pure function of its compressOpts, applied *)
(* to profiles beyond those compressHandler can produce.                   *)

\* quality parameters given to the compiler: 0 .. MaxCRF
MaxCRF == 40

Profiles ==
    {[ZeroOpts EXCEPT !.Codec = c, !.CRF = q, !.Preset = "veryfast",
                      !.Scale = s, !.FPS = n, !.Audio = a, !.AB = "128k",
                      !.HW = h, !.OutExt = e, !.SpeedMode = m,
                      !.Resolution = "original"] :
        c \in {"h264", "h265", "copy", "COPY", "vp9"}, q \in 0..MaxCRF,
        s \in {"", "1280:720"}, n \in {0, 30}, a \in {"aac", "opus", "copy"},
        h \in {"none", "videotoolbox", "VideoToolbox", "videotoolbox2"},
        e \in {".mp4", ".mov"}, m \in {"turbo", "max", "balanced"}}

InitCompile ==
    /\ pc = "compile"
    /\ form = BaseForm
    /\ inputBytes = BaseForm.size
    /\ opts \in Profiles
    /\ modeDecider = "manual"
    /\ runs = <<>>
    /\ exits = <<>>
    /\ ctxDone = FALSE
    /\ outFile = NoFile
    /\ resp = NoResp
    /\ store = NoEntries
    /\ fs = NoFiles
    /\ conn = NoConn
    /\ node = NoNode

\* args := buildFFmpegArgs(inPath, outPath, o); no process is started
Build ==
    /\ pc = "compile"
    /\ pc' = "built"
    /\ runs' = <<runRecord(form, opts, FALSE)>>
    /\ UNCHANGED <<form, inputBytes, opts, modeDecider, exits, ctxDone, outFile, resp,
                 store, otherVars>>

NextCompile == Build

SpecCompile == InitCompile /\ [][NextCompile]_vars

-----------------------------------------------------------------------------
(* The server with several requests in flight: one compressHandler per     *)
(* request on the files of os.TempDir() and the store, with dlHandler and  *)
(* metaHandler.  runFFmpeg is one step here: it returns nil or an error.   *)

Reqs == {1, 2}

\* the uploads: two file names, everything else as in BaseForm
Uploads == {[BaseForm EXCEPT !.stem = s] : s \in {"clip", "other"}}

\* the ids asked of /dl/ and /meta/: 1 .. MaxIds
MaxIds == 3

IdleConn == [pc |-> "idle", form |-> NoForm, api |-> FALSE, resp |-> NoResp]

\* os.Create(path) and the writes that follow, by request r
writeFile(files, path, r) ==
    [p \in DOMAIN files \cup {path} |-> IF p = path THEN r ELSE files[p]]

\* os.Remove(path)
removeFile(files, path) == [p \in DOMAIN files \ {path} |-> files[p]]

InitServer ==
    /\ pc = "serving"
    /\ form = NoForm
    /\ inputBytes = 0
    /\ opts = ZeroOpts
    /\ modeDecider = ""
    /\ runs = <<>>
    /\ exits = <<>>
    /\ ctxDone = FALSE
    /\ outFile = NoFile
    /\ resp = NoResp
    /\ store = NoEntries
    /\ fs = NoFiles
    /\ conn = [r \in Reqs |-> IdleConn]
    /\ node = NoNode

\* compressHandler of request r saves the upload at inPath and starts runFFmpeg
Save(r) ==
    /\ pc = "serving"
    /\ conn[r].pc = "idle"
    /\ \E f \in Uploads, api \in BOOLEAN :
          /\ conn' = [conn EXCEPT ![r] = [pc |-> "running", form |-> f,
                                         api |-> api, resp |-> NoResp]]
          /\ fs' = writeFile(fs, pathString(inPathOf(f)), r)
    /\ UNCHANGED <<pc, form, inputBytes, opts, modeDecider, runs, exits, ctxDone,
                   outFile, resp, store, node>>

\* runFFmpeg of request r returns nil: its transcoder has written outPath
TranscodeOk(r) ==
    /\ pc = "serving"
    /\ conn[r].pc = "running"
    /\ conn' = [conn EXCEPT ![r].pc = "validating"]
    /\ fs' = writeFile(fs, outPathOf(conn[r].form), r)
    /\ UNCHANGED <<pc, form, inputBytes, opts, modeDecider, runs, exits, ctxDone,
                   outFile, resp, store, node>>

\* runFFmpeg of request r returns an error: 500, and the deferred os.Remove(inPath)
TranscodeFails(r) ==
    /\ pc = "serving"
    /\ conn[r].pc = "running"
    /\ conn' = [conn EXCEPT ![r].pc = "done",
                            ![r].resp = httpError(500, "compression failed: exit status 1")]
    /\ fs' = removeFile(fs, pathString(inPathOf(conn[r].form)))
    /\ UNCHANGED <<pc, form, inputBytes, opts, modeDecider, runs, exits, ctxDone,
                   outFile, resp, store, node>>

\* compressHandler of request r from "validate output" to its return
Answer(r) ==
    /\ pc = "serving"
    /\ conn[r].pc = "validating"
    /\ \E size \in OutSizes :
          LET answer == respond([size |-> size, frame |-> <<0, 0>>], conn[r].api)
          IN  /\ conn' = [conn EXCEPT ![r].pc = "done", ![r].resp = answer]
              /\ store' = storeAfter(store, answer.kind,
                                     resultEntry(outPathOf(conn[r].form), answer.meta))
    /\ fs' = removeFile(fs, pathString(inPathOf(conn[r].form)))
    /\ UNCHANGED <<pc, form, inputBytes, opts, modeDecider, runs, exits, ctxDone,
                   outFile, resp, node>>

\* dlHandler: 404 for an id that is not in the store, the file otherwise
Download ==
    /\ pc = "serving"
    /\ \E id \in 1..MaxIds :
          resp' = [status |-> IF id \in DOMAIN store THEN 200 ELSE 404,
                   kind |-> "dl", meta |-> [id |-> id]]
    /\ UNCHANGED <<pc, form, inputBytes, opts, modeDecider, runs, exits, ctxDone,
                   outFile, store, otherVars>>

\* metaHandler: 404 for an id that is not in the store, the entry as JSON otherwise
Meta ==
    /\ pc = "serving"
    /\ \E id \in 1..MaxIds :
          resp' = [status |-> IF id \in DOMAIN store THEN 200 ELSE 404,
                   kind |-> "meta", meta |-> [id |-> id]]
    /\ UNCHANGED <<pc, form, inputBytes, opts, modeDecider, runs, exits, ctxDone,
                   outFile, store, otherVars>>

NextServer ==
    \/ \E r \in Reqs : Save(r)
    \/ \E r \in Reqs : TranscodeOk(r)
    \/ \E r \in Reqs : TranscodeFails(r)
    \/ \E r \in Reqs : Answer(r)
    \/ Download
    \/ Meta

SpecServer == InitServer /\ [][NextServer]_vars

-----------------------------------------------------------------------------
(* The Node server's size decisions, next to the Go server's, on one       *)
(* upload.  Node divides the byte count as a float, so a comparison of     *)
(* sizeMB is told by the whole megabytes and the bytes beyond them.        *)

nodeSizeMB(bytes) == [whole |-> bytes \div MiB, rest |-> bytes % MiB]

\* sizeMB >= n, sizeMB < n and sizeMB <= n on the float
nodeGe(s, n) == s.whole >= n
nodeLt(s, n) == s.whole < n
nodeLe(s, n) == s.whole < n \/ (s.whole = n /\ s.rest = 0)

nodeChooseSpeedBySize(s) ==
    CASE nodeGe(s, 700) -> "ultra_fast"
      [] nodeGe(s, 200) -> "super_fast"
      [] nodeGe(s, 50) -> "fast"
      [] OTHER -> "balanced"

\* the fields of Node's parseOpts that the size decisions read or write
nodeParseOpts(f) ==
    [speedMode |-> IF f.speed # "" THEN f.speed ELSE "ai",
     codec |-> IF f.codec # "" THEN f.codec ELSE "h264"]

nodeDecideMode(speedMode, bytes) ==
    IF speedMode = "ai"
    THEN LET sizeMB == nodeSizeMB(bytes)
             base == nodeChooseSpeedBySize(sizeMB)
         IN  IF nodeGe(sizeMB, 200) /\ nodeLt(sizeMB, 2048)
             THEN IF nodeLe(sizeMB, 250) THEN "balanced" ELSE "ultra_fast"
             ELSE base
    ELSE speedMode

nodeTinyInputSafety(o, fileSize) ==
    IF nodeLt(nodeSizeMB(fileSize), 10) THEN [o EXCEPT !.codec = "h264"] ELSE o

SizesFine ==
    Sizes \cup {50 * MiB - 1, 200 * MiB - 1, 250 * MiB - 1, 251 * MiB - 1,
                700 * MiB - 1, 10 * MiB + 1}

SizeForms ==
    {[BaseForm EXCEPT !.speed = s, !.size = z, !.codec = "h265"] :
        s \in Speeds, z \in SizesFine}

InitSizes ==
    /\ pc = "sizes"
    /\ form \in SizeForms
    /\ inputBytes = 0
    /\ opts = ZeroOpts
    /\ modeDecider = ""
    /\ runs = <<>>
    /\ exits = <<>>
    /\ ctxDone = FALSE
    /\ outFile = NoFile
    /\ resp = NoResp
    /\ store = NoEntries
    /\ fs = NoFiles
    /\ conn = NoConn
    /\ node = NoNode

\* the Go handler up to applySpeedMode
GoDecides ==
    /\ pc = "sizes"
    /\ modeDecider = ""
    /\ inputBytes' = form.size
    /\ opts' = handlerOpts(form)
    /\ modeDecider' = decideMode(parseOpts(form).SpeedMode, form.size \div MiB)[2]
    /\ UNCHANGED <<pc, form, runs, exits, ctxDone, outFile, resp, store,
                   otherVars>>

\* the Node handler up to applySpeedMode
NodeDecides ==
    /\ pc = "sizes"
    /\ ~node.decided
    /\ LET parsed == nodeParseOpts(form)
           decided == [parsed EXCEPT
                          !.speedMode = nodeDecideMode(parsed.speedMode, form.size)]
           safe == nodeTinyInputSafety(decided, form.size)
       IN  node' = [speedMode |-> safe.speedMode, codec |-> safe.codec,
                    decided |-> TRUE]
    /\ UNCHANGED <<pc, form, inputBytes, opts, modeDecider, runs, exits,
                   ctxDone, outFile, resp, store, fs, conn>>

NextSizes == GoDecides \/ NodeDecides

SpecSizes == InitSizes /\ [][NextSizes]_vars

-----------------------------------------------------------------------------
(* The size-band server (second package of src/main.go).  Its functions    *)
(* that share a name with the first server's carry the prefix band.        *)
(* Timeout is in minutes.                                                  *)

ZeroBandOpts ==
    [Codec |-> "", CRF |-> 0, Preset |-> "", Scale |-> "", Audio |-> "",
     AB |-> "", HW |-> "", OutExt |-> "", Timeout |-> 0, SpeedMode |-> "",
     Resolution |-> ""]

bandApplySpeedMode(o) ==
    CASE o.SpeedMode = "ultra_fast" ->
            [o EXCEPT !.CRF = 35, !.Preset = "ultrafast", !.AB = "64k",
                      !.Timeout = 15]
      [] o.SpeedMode = "super_fast" ->
            [o EXCEPT !.CRF = 32, !.Preset = "ultrafast", !.AB = "80k",
                      !.Timeout = 20]
      [] o.SpeedMode = "fast" ->
            [o EXCEPT !.CRF = 30, !.Preset = "veryfast", !.AB = "96k",
                      !.Timeout = 25]
      [] o.SpeedMode = "balanced" ->
            [o EXCEPT !.CRF = 28, !.Preset = "veryfast", !.AB = "96k",
                      !.Timeout = 30]
      [] o.SpeedMode = "quality" ->
            [o EXCEPT !.CRF = 23, !.Preset = "fast", !.AB = "128k",
                      !.Timeout = 45]
      [] OTHER ->
            [o EXCEPT !.CRF = IF o.CRF = 0 THEN 28 ELSE o.CRF,
                      !.Preset = IF o.Preset = "" THEN "veryfast" ELSE o.Preset,
                      !.AB = IF o.AB = "" THEN "96k" ELSE o.AB]

bandApplyResolution(o) ==
    CASE o.Resolution = "" -> [o EXCEPT !.Resolution = "original"]
      [] o.Resolution = "360p" -> [o EXCEPT !.Scale = "640:360"]
      [] o.Resolution = "480p" -> [o EXCEPT !.Scale = "854:480"]
      [] o.Resolution = "720p" -> [o EXCEPT !.Scale = "1280:720"]
      [] o.Resolution = "1080p" -> [o EXCEPT !.Scale = "1920:1080"]
      [] o.Resolution = "1440p" -> [o EXCEPT !.Scale = "2560:1440"]
      [] o.Resolution = "2160p" -> [o EXCEPT !.Scale = "3840:2160"]
      [] OTHER -> [o EXCEPT !.Scale = ""]

bandNormalize(o) ==
    LET d == [o EXCEPT !.Codec = IF o.Codec = "" THEN "h264" ELSE o.Codec,
                       !.Audio = IF o.Audio = "" THEN "aac" ELSE o.Audio,
                       !.HW = IF o.HW = "" THEN "videotoolbox" ELSE o.HW,
                       !.OutExt = IF o.OutExt = "" THEN ".mp4" ELSE o.OutExt,
                       !.Timeout = IF o.Timeout = 0 THEN 30 ELSE o.Timeout]
    IN  bandApplyResolution(bandApplySpeedMode(d))

\* the values one size band sets
band(o, crf, preset, ab, timeout) ==
    [o EXCEPT !.CRF = crf, !.Preset = preset, !.AB = ab, !.Timeout = timeout]

\* "no compression, just copy"
bandCopy(o) ==
    [o EXCEPT !.Codec = "copy", !.Audio = "copy", !.Scale = "", !.Timeout = 5]

adjustBalancedMode(o, sizeMB) ==
    CASE sizeMB < 30 -> bandCopy(o)
      [] sizeMB >= 30 /\ sizeMB < 50 -> band(o, 18, "veryfast", "128k", 10)
      [] sizeMB >= 50 /\ sizeMB < 70 ->
            IF sizeMB < 60 THEN band(o, 18, "veryfast", "128k", 15)
            ELSE band(o, 20, "veryfast", "128k", 15)
      [] sizeMB >= 70 /\ sizeMB < 100 -> band(o, 22, "veryfast", "128k", 20)
      [] OTHER -> band(o, 24, "veryfast", "96k", 30)

adjustUltraFastMode(o, sizeMB) ==
    CASE sizeMB < 30 -> bandCopy(o)
      [] sizeMB >= 30 /\ sizeMB < 50 -> band(o, 25, "ultrafast", "128k", 8)
      [] sizeMB >= 50 /\ sizeMB < 70 -> band(o, 28, "ultrafast", "96k", 10)
      [] sizeMB >= 70 /\ sizeMB < 100 -> band(o, 30, "ultrafast", "96k", 12)
      [] OTHER -> band(o, 32, "ultrafast", "80k", 15)

adjustSuperFastMode(o, sizeMB) ==
    CASE sizeMB < 30 -> bandCopy(o)
      [] sizeMB >= 30 /\ sizeMB < 50 -> band(o, 24, "ultrafast", "128k", 10)
      [] sizeMB >= 50 /\ sizeMB < 70 -> band(o, 26, "ultrafast", "96k", 12)
      [] sizeMB >= 70 /\ sizeMB < 100 -> band(o, 28, "ultrafast", "96k", 15)
      [] OTHER -> band(o, 30, "ultrafast", "80k", 20)

adjustFastMode(o, sizeMB) ==
    CASE sizeMB < 30 -> bandCopy(o)
      [] sizeMB >= 30 /\ sizeMB < 50 -> band(o, 22, "veryfast", "128k", 12)
      [] sizeMB >= 50 /\ sizeMB < 70 -> band(o, 24, "veryfast", "128k", 15)
      [] sizeMB >= 70 /\ sizeMB < 100 -> band(o, 26, "veryfast", "96k", 18)
      [] OTHER -> band(o, 28, "veryfast", "96k", 25)

adjustQualityMode(o, sizeMB) ==
    CASE sizeMB < 30 -> band(o, 18, "fast", "128k", 10)
      [] sizeMB >= 30 /\ sizeMB < 50 -> band(o, 20, "fast", "128k", 15)
      [] sizeMB >= 50 /\ sizeMB < 70 -> band(o, 21, "fast", "128k", 20)
      [] sizeMB >= 70 /\ sizeMB < 100 -> band(o, 22, "fast", "128k", 25)
      [] OTHER -> band(o, 23, "fast", "128k", 45)

adjustForFileSize(o, fileSize) ==
    LET sizeMB == fileSize \div MiB
    IN  CASE o.SpeedMode = "balanced" -> adjustBalancedMode(o, sizeMB)
          [] o.SpeedMode = "ultra_fast" -> adjustUltraFastMode(o, sizeMB)
          [] o.SpeedMode = "super_fast" -> adjustSuperFastMode(o, sizeMB)
          [] o.SpeedMode = "fast" -> adjustFastMode(o, sizeMB)
          [] o.SpeedMode = "quality" -> adjustQualityMode(o, sizeMB)
          [] OTHER -> o

\* the -b:v of the VideoToolbox encoders, chosen by CRF
bandBitrate(crf) ==
    CASE crf <= 18 -> "5M"
      [] crf > 18 /\ crf <= 22 -> "4M"
      [] crf > 22 /\ crf <= 26 -> "3M"
      [] crf > 26 /\ crf <= 30 -> "2.5M"
      [] crf > 30 /\ crf <= 35 -> "2M"
      [] OTHER -> "1.5M"

bandVcodec(o) ==
    CASE ToLower(o.Codec) = "copy" -> "copy"
      [] ToLower(o.Codec) = "h265" ->
            IF ToLower(o.HW) = "videotoolbox" THEN "hevc_videotoolbox"
            ELSE "libx265"
      [] OTHER ->
            IF ToLower(o.HW) = "videotoolbox" THEN "h264_videotoolbox"
            ELSE "libx264"

bandBuildFFmpegArgs(inPath, outPath, o) ==
    LET vcodec == bandVcodec(o)
    IN  <<"-y", "-hide_banner", "-loglevel", "error", "-i", inPath>>
        \o (IF o.SpeedMode = "ultra_fast"
            THEN <<"-tune", "fastdecode", "-profile:v", "baseline">>
            ELSE <<>>)
        \o (IF o.OutExt = ".mp4" THEN <<"-pix_fmt", "yuv420p">> ELSE <<>>)
        \o (IF o.Scale # "" /\ ToLower(o.Codec) # "copy"
            THEN <<"-vf", "scale=" \o o.Scale \o ":flags=fast_bilinear">>
            ELSE <<>>)
        \o <<"-c:v", vcodec>>
        \o (CASE vcodec \in {"libx264", "libx265"} ->
                    <<"-crf", ToString(o.CRF), "-preset", o.Preset>>
              [] vcodec \in {"h264_videotoolbox", "hevc_videotoolbox"} ->
                    <<"-b:v", bandBitrate(o.CRF)>>
              [] OTHER -> <<>>)
        \o (CASE ToLower(o.Audio) = "copy" -> <<"-c:a", "copy">>
              [] ToLower(o.Audio) = "opus" -> <<"-c:a", "libopus", "-b:a", o.AB>>
              [] OTHER -> <<"-c:a", "aac", "-b:a", o.AB>>)
        \o <<"-movflags", "+faststart", "-threads", "0">>
        \o (IF o.SpeedMode \in {"ultra_fast", "super_fast"}
            THEN <<"-g", "30", "-keyint_min", "30">>
            ELSE <<>>)
        \o <<outPath>>

\* strconv.Atoi over the crf values of the model
crfAtoi(s) ==
    CASE s = "28" -> <<28, TRUE>>
      [] s = "20" -> <<20, TRUE>>
      [] OTHER -> Atoi(s)

\* get("speed", "balanced") is never "", so the crf field is not read
bandParseOpts(f) ==
    LET o == [ZeroBandOpts EXCEPT
                 !.Codec = get(f, "codec", "h264"),
                 !.Preset = get(f, "preset", ""),
                 !.Scale = get(f, "scale", ""),
                 !.Audio = get(f, "audio", "aac"),
                 !.AB = get(f, "ab", ""),
                 !.HW = get(f, "hw", "videotoolbox"),
                 !.OutExt = get(f, "outExt", ".mp4"),
                 !.SpeedMode = get(f, "speed", "balanced"),
                 !.Resolution = get(f, "resolution", "original")]
        withCRF == IF o.SpeedMode = ""
                   THEN [o EXCEPT !.CRF = crfAtoi(get(f, "crf", "28"))[1]]
                   ELSE o
    IN  bandNormalize(withCRF)

\* opts as compressHandler passes it to runFFmpeg
bandHandlerOpts(f) == adjustForFileSize(bandParseOpts(f), f.size)

bandOutPath(f) == withExt(inPathOf(f), "_compressed" \o bandHandlerOpts(f).OutExt)

\* one cmd.Run() of runFFmpeg: attempt 1 is the first, 2 the CPU fallback,
\* 3 the copy mode
bandRun(f, o, attempt, started) ==
    [o |-> o,
     args |-> bandBuildFFmpegArgs(pathString(inPathOf(f)), bandOutPath(f), o),
     started |-> started,
     attempt |-> attempt]

\* the attempt runFFmpeg makes after attempt k returned an error, 0 for none
nextAttempt(k, o, fileSize, inputThere) ==
    CASE k = 1 /\ ContainsVideotoolbox(ToLower(o.HW)) -> 2
      [] k \in {1, 2} /\ ~(k = 1 /\ ContainsVideotoolbox(ToLower(o.HW)))
            /\ inputThere /\ fileSize < 100 * MiB -> 3
      [] OTHER -> 0

attemptOpts(k, o) ==
    IF k = 2 THEN [o EXCEPT !.HW = "none"]
    ELSE [o EXCEPT !.Codec = "copy", !.Audio = "copy", !.Scale = ""]

\* cmd.Run on a context that is done: no process, the context's error
NotSpawned == [code |-> -1, cancelled |-> TRUE]

\* runFFmpeg after its last cmd.Run returned an error: <<runs, exits>>
RECURSIVE goOn(_, _, _, _, _)
goOn(rs, es, f, inputThere, done) ==
    LET last == rs[Len(rs)]
        k == nextAttempt(last.attempt, last.o, f.size, inputThere)
        r == bandRun(f, attemptOpts(k, last.o), k, spawns(done))
    IN  IF k = 0 THEN <<rs, es>>
        ELSE IF spawns(done) THEN <<Append(rs, r), es>>
        ELSE goOn(Append(rs, r), Append(es, NotSpawned), f, inputThere, done)

BandSpeeds == {"", "balanced", "ultra_fast", "super_fast", "fast", "quality",
               "turbo"}

BandSizeMBs == {5, 29, 30, 49, 50, 59, 60, 69, 70, 99, 100, 150}

BandBaseForm ==
    [speed |-> "", resolution |-> "", codec |-> "", audio |-> "", ab |-> "",
     hw |-> "", outExt |-> "", preset |-> "", scale |-> "", crf |-> "",
     stem |-> "clip", ext |-> ".mov", size |-> 55 * MiB]

BandRequests ==
    {[BandBaseForm EXCEPT !.speed = s, !.size = mb * MiB, !.hw = h] :
        s \in BandSpeeds, mb \in BandSizeMBs, h \in {"", "none"}}
    \cup {[BandBaseForm EXCEPT !.codec = c, !.resolution = r, !.crf = q,
                               !.preset = p, !.ab = b] :
        c \in {"", "h265"}, r \in {"", "720p"}, q \in {"", "20"},
        p \in {"", "slow"}, b \in {"", "192k"}}

\* what a poll can find at outPath, in bytes; -1 for no file
BandOutSizes == {0, 1024, 1025, 4096}

InitBand ==
    /\ pc = "start"
    /\ form \in BandRequests
    /\ inputBytes = 0
    /\ opts = ZeroBandOpts
    /\ modeDecider = ""
    /\ runs = <<>>
    /\ exits = <<>>
    /\ ctxDone = FALSE
    /\ outFile = NoFile
    /\ resp = NoResp
    /\ store = NoEntries
    /\ fs = NoFiles
    /\ conn = NoConn
    /\ node = NoNode

bandInPath == pathString(inPathOf(form))

\* a transcoder of the goroutine is running
alive == Len(exits) < Len(runs)

\* the goroutine's runFFmpeg has returned
finished == runs # <<>> /\ Len(exits) = Len(runs)

\* the poll's test of the output file
ready == outFile.size > 1024

\* compressHandler from the upload to the start of the goroutine, whose
\* runFFmpeg normalizes its copy of opts and starts the first transcoder
BandCompress ==
    /\ pc = "start"
    /\ pc' = "polling"
    /\ fs' = writeFile(fs, bandInPath, 1)
    /\ inputBytes' = form.size
    /\ opts' = bandHandlerOpts(form)
    /\ runs' = <<bandRun(form, bandNormalize(bandHandlerOpts(form)), 1,
                         spawns(ctxDone))>>
    /\ UNCHANGED <<form, modeDecider, exits, ctxDone, outFile, resp, store,
                   conn, node>>

\* the running transcoder writes more of the output file
BandWrites ==
    /\ alive
    /\ \E size \in BandOutSizes :
          /\ size > outFile.size
          /\ outFile' = [outFile EXCEPT !.size = size]
    /\ UNCHANGED <<pc, form, inputBytes, opts, modeDecider, runs, exits,
                   ctxDone, resp, store, otherVars>>

\* the running transcoder exits by itself; after an error runFFmpeg goes on
BandExits ==
    /\ alive
    /\ \E code \in {0} \cup FailCodes :
          /\ code = 0 => outFile.size >= 0
          /\ LET es == Append(exits, [code |-> code, cancelled |-> ctxDone])
                 next == IF code = 0 THEN <<runs, es>>
                         ELSE goOn(runs, es, form, bandInPath \in DOMAIN fs,
                                   ctxDone)
             IN  runs' = next[1] /\ exits' = next[2]
    /\ UNCHANGED <<pc, form, inputBytes, opts, modeDecider, ctxDone, outFile,
                   resp, store, otherVars>>

\* exec.CommandContext kills the running transcoder once ctx is done
BandKilled ==
    /\ alive
    /\ ctxDone
    /\ LET es == Append(exits, [code |-> -1, cancelled |-> TRUE])
           next == goOn(runs, es, form, bandInPath \in DOMAIN fs, ctxDone)
       IN  runs' = next[1] /\ exits' = next[2]
    /\ UNCHANGED <<pc, form, inputBytes, opts, modeDecider, ctxDone, outFile,
                   resp, store, otherVars>>

\* the deadline of context.WithTimeout passes or the client goes away
BandDeadline ==
    /\ pc = "polling"
    /\ ~ctxDone
    /\ ctxDone' = TRUE
    /\ UNCHANGED <<pc, form, inputBytes, opts, modeDecider, runs, exits,
                   outFile, resp, store, otherVars>>

\* a poll finds the output file: http.ServeFile, then the deferred cancel()
\* and os.Remove(filePath)
BandServes ==
    /\ pc = "polling"
    /\ ready
    /\ pc' = "done"
    /\ resp' = [status |-> 200, kind |-> "file",
                meta |-> [path |-> bandOutPath(form), size |-> outFile.size]]
    /\ ctxDone' = TRUE
    /\ fs' = removeFile(fs, bandInPath)
    /\ UNCHANGED <<form, inputBytes, opts, modeDecider, runs, exits, outFile,
                   store, conn, node>>

\* a poll finds no output file after opts.Timeout
BandTimeout ==
    /\ pc = "polling"
    /\ ~ready
    /\ pc' = "done"
    /\ resp' = httpError(504, "compression timeout")
    /\ ctxDone' = TRUE
    /\ fs' = removeFile(fs, bandInPath)
    /\ UNCHANGED <<form, inputBytes, opts, modeDecider, runs, exits, outFile,
                   store, conn, node>>

NextBand ==
    \/ BandCompress
    \/ BandWrites
    \/ BandExits
    \/ BandKilled
    \/ BandDeadline
    \/ BandServes
    \/ BandTimeout

SpecBand == InitBand /\ [][NextBand]_vars

-----------------------------------------------------------------------------
(* Reading an argument list.                                               *)

hasFlag(args, flag) == \E i \in DOMAIN args : args[i] = flag

\* the values that follow each occurrence of flag
flagValues(args, flag) ==
    {args[i + 1] : i \in {j \in 1..(Len(args) - 1) : args[j] = flag}}

\* how many times flag occurs
countFlag(args, flag) == Cardinality({i \in DOMAIN args : args[i] = flag})

sizeMBOf(bytes) == bytes \div MiB

started == pc # "idle" /\ runs # <<>>

lastRun == runs[Len(runs)]

maxOf(a, b) == IF a >= b THEN a ELSE b

-----------------------------------------------------------------------------
(* C1.  Every transcoder run for an upload smaller than 10 MB is compiled  *)
(* with h264 on a software encoder, aac audio, no scale filter, quality    *)
(* 22, preset veryfast and no hardware flags, whatever was requested.      *)
C1_SmallFileOverride ==
    \A i \in DOMAIN runs :
        sizeMBOf(inputBytes) < 10 =>
            LET a == runs[i].args
            IN  /\ flagValues(a, "-c:v") = {"libx264"}
                /\ flagValues(a, "-c:a") = {"aac"}
                /\ ~hasFlag(a, "-vf")
                /\ flagValues(a, "-crf") = {"22"}
                /\ flagValues(a, "-preset") = {"veryfast"}
                /\ ~hasFlag(a, "-hwaccel")

C5_CopyEmitsNoVideoOptions ==
    \A i \in DOMAIN runs :
        ToLower(runs[i].o.Codec) = "copy" =>
            /\ flagValues(runs[i].args, "-c:v") = {"copy"}
            /\ \A flag \in {"-vf", "-pix_fmt", "-crf", "-preset", "-b:v", "-r",
                            "-tune", "-g", "-keyint_min", "-x264-params",
                            "-realtime"} :
                  ~hasFlag(runs[i].args, flag)

C5_Witness ==
    /\ started
    /\ runs[1].o.Codec = "COPY"
    /\ runs[1].o.SpeedMode = "turbo"
    /\ runs[1].o.FPS = 30
    /\ hwOn(runs[1].o)
    /\ flagValues(runs[1].args, "-c:v") = {"copy"}

(* C6.  For mode turbo (target 720) and mode max (target 480) with a       *)
(* re-encoding codec the emitted filter is the orientation-aware one: on a *)
(* landscape input (width > height) it fixes the height to the target and  *)
(* leaves the width automatic, on any other input it fixes the width and   *)
(* leaves the height automatic; the output frame has that dimension.       *)
C6_OrientationSafeScale ==
    \A i \in DOMAIN runs :
        LET o == runs[i].o
            target == IF o.SpeedMode = "turbo" THEN 720 ELSE 480
            iw == form.frame[1]
            ih == form.frame[2]
        IN  (o.SpeedMode \in {"turbo", "max"} /\ reencodes(o)) =>
                /\ flagValues(runs[i].args, "-vf")
                      = {IF o.SpeedMode = "turbo" THEN TurboVF ELSE MaxVF}
                /\ scaleRequest(o, iw, ih)
                      = IF iw > ih THEN <<-2, target>> ELSE <<target, -2>>
                /\ (i = Len(runs) /\ pc = "done" /\ outFile.size >= 0) =>
                      IF iw > ih
                      THEN outFile.frame[2] = target
                      ELSE outFile.frame[1] = target

C6_Witness ==
    /\ pc = "done" /\ resp.status = 200
    /\ lastRun.o.SpeedMode = "turbo"
    /\ form.frame = <<1080, 1920>>
    /\ flagValues(lastRun.args, "-vf") = {TurboVF}
    /\ outFile.frame = <<720, 1280>>

(* C7.  For mode turbo (target 720) and mode max (target 480) with a       *)
(* re-encoding codec the larger dimension of the output frame is no        *)
(* greater than the target, for every input width and height.              *)
C7_LongEdgeBounded ==
    (pc = "done" /\ outFile.size >= 0 /\ lastRun.o.SpeedMode \in {"turbo", "max"}
        /\ reencodes(lastRun.o)) =>
        maxOf(outFile.frame[1], outFile.frame[2])
            <= (IF lastRun.o.SpeedMode = "turbo" THEN 720 ELSE 480)

\* the rows of the documented Speed Modes table: <<CRF, preset, audio bitrate>>
SpeedModesRow(mode) ==
    CASE mode = "turbo" -> <<"34", "ultrafast", "96k">>
      [] mode = "max" -> <<"36", "ultrafast", "64k">>
      [] mode = "ultra_fast" -> <<"32", "ultrafast", "96k">>
      [] mode = "super_fast" -> <<"30", "ultrafast", "96k">>
      [] mode = "fast" -> <<"28", "veryfast", "128k">>
      [] mode = "balanced" -> <<"26", "veryfast", "128k">>
      [] mode = "quality" -> <<"23", "fast", "128k">>

KnownModes == {"turbo", "max", "ultra_fast", "super_fast", "fast", "balanced", "quality"}

(* C8.  For a file of at least 10 MB encoded with a software encoder the   *)
(* arguments carry the quality parameter, the preset and (when audio is    *)
(* encoded as aac or opus) the audio bitrate of the final mode's row of    *)
(* the Speed Modes table.                                                  *)
C8_ProfileRow ==
    \A i \in DOMAIN runs :
        LET a == runs[i].args
            row == SpeedModesRow(opts.SpeedMode)
        IN  (sizeMBOf(inputBytes) >= 10 /\ opts.SpeedMode \in KnownModes
                /\ flagValues(a, "-c:v") \subseteq {"libx264", "libx265"}) =>
                /\ flagValues(a, "-crf") = {row[1]}
                /\ flagValues(a, "-preset") = {row[2]}
                /\ flagValues(a, "-c:a") \subseteq {"aac", "libopus"} =>
                      flagValues(a, "-b:a") = {row[3]}

\* the mode the request asks for: the speed field, "ai" when it is left out
requestedMode == IF form.speed = "" THEN "ai" ELSE form.speed

(* C9.  For every requested mode name outside the known enumeration the    *)
(* profile applied is the balanced one: quality 26, preset veryfast and    *)
(* audio bitrate 128k, whatever the other request fields are.              *)
C9_UnknownModeBalanced ==
    (started /\ requestedMode \notin KnownModes \cup {"ai"}) =>
        /\ opts.CRF = 26
        /\ opts.Preset = "veryfast"
        /\ opts.AB = "128k"

(* C10.  The size-based selector runs only for the automatic mode: any     *)
(* other requested mode is the final mode at every file size, decided      *)
(* "manual"; an automatic request ends in a concrete mode, never "ai",     *)
(* decided "ai"; and that is what a successful response reports.           *)
C10_ModeDecider ==
    started =>
        /\ requestedMode # "ai" =>
              opts.SpeedMode = requestedMode /\ modeDecider = "manual"
        /\ requestedMode = "ai" =>
              opts.SpeedMode \in KnownModes /\ modeDecider = "ai"
        /\ resp.status = 200 =>
              /\ resp.meta.Mode = opts.SpeedMode
              /\ resp.meta.Mode # "ai"
              /\ resp.meta.ModeDecider = modeDecider

C10_Witness ==
    /\ resp.status = 200
    /\ form.speed = "ai"
    /\ sizeMBOf(inputBytes) = 55
    /\ resp.meta.Mode = "fast"
    /\ resp.meta.ModeDecider = "ai"

\* the Resolution Table: tier -> width:height
ResolutionTable(tier) ==
    CASE tier = "360p" -> "640:360"
      [] tier = "480p" -> "854:480"
      [] tier = "720p" -> "1280:720"
      [] tier = "1080p" -> "1920:1080"
      [] tier = "1440p" -> "2560:1440"
      [] tier = "2160p" -> "3840:2160"

TableTiers == {"360p", "480p", "720p", "1080p", "1440p", "2160p"}

\* the tier the request asks for: the resolution field, "original" when left out
requestedTier == IF form.resolution = "" THEN "original" ELSE form.resolution

(* C11.  Every compiled argument list has at most one -vf.  With a         *)
(* re-encoding codec: in mode turbo or max it is the orientation-aware     *)
(* filter whatever tier was requested; in every other mode it is the fixed *)
(* width:height of the requested tier's row of the Resolution Table, and   *)
(* there is none when the tier is "original" or not in the table.          *)
C11_OneVideoFilter ==
    \A i \in DOMAIN runs :
        LET o == runs[i].o
            a == runs[i].args
        IN  /\ countFlag(a, "-vf") <= 1
            /\ (reencodes(o) /\ o.SpeedMode \in {"turbo", "max"}) =>
                  flagValues(a, "-vf")
                      = {IF o.SpeedMode = "turbo" THEN TurboVF ELSE MaxVF}
            /\ (reencodes(o) /\ o.SpeedMode \notin {"turbo", "max"}) =>
                  flagValues(a, "-vf")
                      = IF requestedTier \in TableTiers
                        THEN {"scale=" \o ResolutionTable(requestedTier)
                                  \o ":flags=fast_bilinear,setsar=1"}
                        ELSE {}

C11_Witness ==
    /\ started
    /\ form.speed = "turbo" /\ form.resolution = "720p"
    /\ reencodes(runs[1].o)
    /\ runs[1].o.Scale = "1280:720"
    /\ flagValues(runs[1].args, "-vf") = {TurboVF}

(* C12.  -r is emitted only when the video is re-encoded; its value is the *)
(* request's fps when that is an integer in 1..60, otherwise 24 in mode    *)
(* turbo or max, otherwise there is no -r.  An fps that is no number, <= 0 *)
(* or > 60 counts as not requested, so every emitted rate is in 1..60.     *)
C12_ForcedFrameRate ==
    \A i \in DOMAIN runs :
        LET o == runs[i].o
            a == runs[i].args
            n == Atoi(form.fps)
            asked == n[2] /\ 1 <= n[1] /\ n[1] <= 60
        IN  /\ countFlag(a, "-r") <= 1
            /\ flagValues(a, "-r")
                  = (IF ~reencodes(o) THEN {}
                     ELSE IF asked THEN {ToString(n[1])}
                     ELSE IF o.SpeedMode \in {"turbo", "max"} THEN {"24"}
                     ELSE {})
            /\ flagValues(a, "-r") \subseteq {ToString(k) : k \in 1..60}

C12_Witness ==
    /\ started
    /\ form.fps = "61" /\ form.speed = "turbo"
    /\ reencodes(runs[1].o)
    /\ flagValues(runs[1].args, "-r") = {"24"}

(* C13.  codec copy gives -c:v copy; h265 gives hevc_videotoolbox when     *)
(* hardware is videotoolbox and libx265 otherwise; every other codec gives *)
(* h264_videotoolbox when hardware is videotoolbox and libx264 otherwise.  *)
(* A software encoder gets exactly one -crf (the profile's) and one        *)
(* -preset and no -b:v; a hardware encoder gets exactly one -b:v and no    *)
(* -crf and no -preset.                                                    *)
C13_EncoderAndRateControl ==
    \A i \in DOMAIN runs :
        LET o == runs[i].o
            a == runs[i].args
            codec == ToLower(o.Codec)
            hw == ToLower(o.HW) = "videotoolbox"
            enc == flagValues(a, "-c:v")
        IN  /\ countFlag(a, "-c:v") = 1
            /\ codec = "copy" => enc = {"copy"}
            /\ codec = "h265" =>
                  enc = {IF hw THEN "hevc_videotoolbox" ELSE "libx265"}
            /\ codec \notin {"copy", "h265"} =>
                  enc = {IF hw THEN "h264_videotoolbox" ELSE "libx264"}
            /\ enc \subseteq {"libx264", "libx265"} =>
                  /\ countFlag(a, "-crf") = 1
                  /\ countFlag(a, "-preset") = 1
                  /\ flagValues(a, "-crf") = {ToString(o.CRF)}
                  /\ flagValues(a, "-preset") = {o.Preset}
                  /\ ~hasFlag(a, "-b:v")
            /\ enc \subseteq {"h264_videotoolbox", "hevc_videotoolbox"} =>
                  /\ countFlag(a, "-b:v") = 1
                  /\ ~hasFlag(a, "-crf")
                  /\ ~hasFlag(a, "-preset")

C13_Witness ==
    /\ pc = "built"
    /\ runs[1].o.Codec = "h265" /\ runs[1].o.HW = "VideoToolbox"
    /\ flagValues(runs[1].args, "-c:v") = {"hevc_videotoolbox"}
    /\ hasFlag(runs[1].args, "-b:v")

\* a -b:v value as the transcoder reads it, in kbit/s (suffix k = 10^3, M = 10^6)
bitrateKbps(s) ==
    CASE s = "5M" -> 5000
      [] s = "4M" -> 4000
      [] s = "3M" -> 3000
      [] s = "2.5M" -> 2500
      [] s = "2500k" -> 2500
      [] s = "2M" -> 2000
      [] s = "1500k" -> 1500

\* the kbit/s of the -b:v values of an argument list
videoKbps(args) == {bitrateKbps(v) : v \in flagValues(args, "-b:v")}

usesHardwareEncoder(args) ==
    \E e \in {"h264_videotoolbox", "hevc_videotoolbox"} : e \in flagValues(args, "-c:v")

(* C14.  For a hardware encoder the video bitrate is 5M for q <= 20, 4M    *)
(* for 21..23, 3M for 24..26, 2.5M for 27..30, 2M for 31..36 and 1.5M      *)
(* above 36, so it is no higher than the bitrate of q - 1; in mode turbo   *)
(* it is 2.5M whatever q is.                                               *)
C14_BitrateLadder ==
    \A i \in DOMAIN runs :
        LET o == runs[i].o
            a == runs[i].args
            q == o.CRF
            ladder == CASE q <= 20 -> 5000
                        [] 21 <= q /\ q <= 23 -> 4000
                        [] 24 <= q /\ q <= 26 -> 3000
                        [] 27 <= q /\ q <= 30 -> 2500
                        [] 31 <= q /\ q <= 36 -> 2000
                        [] q > 36 -> 1500
            below == buildFFmpegArgs("in", "out", [o EXCEPT !.CRF = q - 1])
        IN  usesHardwareEncoder(a) =>
                /\ o.SpeedMode = "turbo" => videoKbps(a) = {2500}
                /\ o.SpeedMode # "turbo" =>
                      /\ videoKbps(a) = {ladder}
                      /\ \A hi \in videoKbps(below), lo \in videoKbps(a) : hi >= lo

C14_Witness ==
    /\ pc = "built"
    /\ usesHardwareEncoder(runs[1].args)
    /\ runs[1].o.SpeedMode = "turbo"
    /\ runs[1].o.CRF > 36
    /\ flagValues(runs[1].args, "-b:v") = {"2500k"}

\* the place of an option in the order of the argument list; 0: no option
argRank(tok) ==
    CASE tok \in {"-y", "-hide_banner", "-loglevel"} -> 1
      [] tok \in {"-hwaccel", "-hwaccel_output_format"} -> 2
      [] tok = "-i" -> 3
      [] tok = "-vf" -> 4
      [] tok = "-r" -> 5
      [] tok = "-c:v" -> 6
      [] tok \in {"-crf", "-preset", "-b:v"} -> 7
      [] tok = "-pix_fmt" -> 8
      [] tok \in {"-tune", "-g", "-keyint_min", "-x264-params", "-realtime"} -> 9
      [] tok \in {"-c:a", "-b:a", "-ac"} -> 10
      [] tok \in {"-movflags", "-threads"} -> 11
      [] OTHER -> 0

isOption(tok) == argRank(tok) > 0

\* the options of an argument list, in order, without their values
optionsOf(args) == SelectSeq(args, isOption)

(* C15.  Every compiled argument list starts with -y -hide_banner          *)
(* -loglevel error, then has the hardware decode hint exactly when         *)
(* hardware is on, then -i and the input path; the options after that come *)
(* in the order video filter, frame rate, video codec, rate control, pixel *)
(* format, speed tuning, audio, container/thread flags; and the output     *)
(* path is the last argument.                                              *)
C15_ArgumentOrder ==
    \A i \in DOMAIN runs :
        LET o == runs[i].o
            a == runs[i].args
            hw == ToLower(o.HW) = "videotoolbox"
            opt == optionsOf(a)
            inPath == pathString(inPathOf(form))
        IN  /\ SubSeq(a, 1, 4) = <<"-y", "-hide_banner", "-loglevel", "error">>
            /\ IF hw
               THEN SubSeq(a, 5, 10) = <<"-hwaccel", "videotoolbox",
                                         "-hwaccel_output_format", "videotoolbox",
                                         "-i", inPath>>
               ELSE /\ SubSeq(a, 5, 6) = <<"-i", inPath>>
                    /\ ~hasFlag(a, "-hwaccel")
            /\ \A j \in 1..(Len(opt) - 1) : argRank(opt[j]) <= argRank(opt[j + 1])
            /\ a[Len(a)] = outPathOf(form)
            /\ countFlag(a, outPathOf(form)) = 1

C15_Witness ==
    /\ pc = "built"
    /\ \A flag \in {"-hwaccel", "-vf", "-r", "-c:v", "-b:v", "-pix_fmt",
                     "-realtime", "-ac", "-movflags"} :
          hasFlag(runs[1].args, flag)
    /\ runs[1].args[Len(runs[1].args)] = outPathOf(form)

TuningFlags == {"-tune", "-g", "-keyint_min", "-x264-params", "-x265-params", "-realtime"}

\* a -tune value that includes zerolatency
zeroLatencyTune(v) == v \in {"zerolatency", "fastdecode,zerolatency"}

(* C16.  Speed-tuning flags appear only in mode turbo or max with a        *)
(* re-encoding codec; there every software encoder, libx264 and libx265    *)
(* alike, gets a zero-latency -tune, -g 300 and the bundle of              *)
(* motion-estimation shortcuts, and every hardware encoder gets -realtime  *)
(* true and -g 300.                                                        *)
C16_SpeedTuning ==
    \A i \in DOMAIN runs :
        LET o == runs[i].o
            a == runs[i].args
            tuned == o.SpeedMode \in {"turbo", "max"} /\ reencodes(o)
            enc == flagValues(a, "-c:v")
        IN  /\ ~tuned => \A flag \in TuningFlags : ~hasFlag(a, flag)
            /\ (tuned /\ enc \subseteq {"libx264", "libx265"}) =>
                  /\ \E v \in flagValues(a, "-tune") : zeroLatencyTune(v)
                  /\ flagValues(a, "-g") = {"300"}
                  /\ hasFlag(a, "-x264-params") \/ hasFlag(a, "-x265-params")
            /\ (tuned /\ usesHardwareEncoder(a)) =>
                  /\ flagValues(a, "-realtime") = {"true"}
                  /\ flagValues(a, "-g") = {"300"}

\* the value after the last occurrence of flag, the one the transcoder uses
lastValue(args, flag) ==
    LET j == CHOOSE k \in DOMAIN args :
                 args[k] = flag /\ \A l \in DOMAIN args : l > k => args[l] # flag
    IN  args[j + 1]

(* C17.  Whenever audio is encoded (aac or opus, not copied): in mode      *)
(* turbo the arguments force 2 channels and 96k, in mode max 1 channel and *)
(* 64k; in every other mode there is no -ac and the bitrate is the         *)
(* profile's.                                                              *)
C17_AudioOverrides ==
    \A i \in DOMAIN runs :
        LET o == runs[i].o
            a == runs[i].args
        IN  flagValues(a, "-c:a") \subseteq {"aac", "libopus"} =>
                /\ o.SpeedMode = "turbo" =>
                      flagValues(a, "-ac") = {"2"} /\ lastValue(a, "-b:a") = "96k"
                /\ o.SpeedMode = "max" =>
                      flagValues(a, "-ac") = {"1"} /\ lastValue(a, "-b:a") = "64k"
                /\ o.SpeedMode \notin {"turbo", "max"} =>
                      ~hasFlag(a, "-ac") /\ flagValues(a, "-b:a") = {o.AB}

\* the handler has answered after a transcoder exited
answered == pc = "done" /\ exits # <<>>

lastExit == exits[Len(exits)]

(* C18.  When the transcoder exits zero and the output file is absent or   *)
(* smaller than 1024 bytes the handler answers with an error of status     *)
(* 500, as for a failed transcode, serving no file and storing no result;  *)
(* with an output of 1024 bytes or more it answers 200.                    *)
C18_OutputValidation ==
    (answered /\ lastExit.code = 0) =>
        /\ outFile.size < 1024 => resp.status = 500 /\ resp.kind = "error"
        /\ outFile.size >= 1024 => resp.status = 200 /\ resp.kind \in {"api", "ui"}

(* C19.  When the request's context ends while the handler waits for the   *)
(* transcoder the answer has status 504, and when the transcoder fails on  *)
(* its own the answer has status 500.                                      *)
C19_TimeoutDistinct ==
    (answered /\ lastExit.code # 0) =>
        /\ lastExit.cancelled => resp.status = 504
        /\ ~lastExit.cancelled => resp.status = 500

(* C20.  The hardware value of a successful response (X-HW, or the HW of   *)
(* the stored result) is the hardware setting of the transcoder run that   *)
(* produced the output: "none" after a failed hardware attempt and a       *)
(* successful software retry.                                              *)
C20_ReportedHardware ==
    resp.status = 200 => resp.meta.HW = lastRun.o.HW

\* the cmd.Run() calls that spawned a process
startedRuns == {i \in DOMAIN runs : runs[i].started}

\* runFFmpeg returned an error: the handler answered "compression failed: ..."
returnedError == resp.kind = "error" /\ resp.meta # "output seems empty or invalid"

C25_RetryOnlyAfterHardware ==
    Len(runs) = 2 =>
        /\ hasFlag(runs[1].args, "-hwaccel") \/ usesHardwareEncoder(runs[1].args)
        /\ runs[2].args # runs[1].args

argsFor(f) ==
    buildFFmpegArgs(pathString(inPathOf(f)), outPathOf(f), normalize(handlerOpts(f)))

(* C29.  A 400 is answered only before any transcoder is spawned, and a    *)
(* request with a file is never answered 400 whatever its option fields    *)
(* are.  A field with an unknown value is compiled exactly as the default: *)
(* an unknown mode as balanced, an unknown resolution as original, an      *)
(* unknown codec as h264, an unknown audio codec as aac, an unknown        *)
(* hardware value as none, an invalid fps as none.                         *)
C29_NeverRejected ==
    /\ resp.status = 400 => runs = <<>> /\ exits = <<>>
    /\ started =>
          /\ resp.status # 400
          /\ requestedMode \notin KnownModes \cup {"ai"} =>
                runs[1].args = argsFor([form EXCEPT !.speed = "balanced"])
          /\ requestedTier \notin TableTiers \cup {"original"} =>
                runs[1].args = argsFor([form EXCEPT !.resolution = "original"])
          /\ ToLower(form.codec) \notin {"", "h264", "h265", "copy"} =>
                runs[1].args = argsFor([form EXCEPT !.codec = "h264"])
          /\ ToLower(form.audio) \notin {"", "aac", "opus", "copy"} =>
                runs[1].args = argsFor([form EXCEPT !.audio = "aac"])
          /\ ToLower(form.hw) \notin {"", "none", "videotoolbox"} =>
                runs[1].args = argsFor([form EXCEPT !.hw = "none"])
          /\ form.fps \in {"abc", "-5", "0", "61"} =>
                runs[1].args = argsFor([form EXCEPT !.fps = ""])

C29_Witness ==
    /\ pc = "done" /\ resp.status = 200
    /\ form.speed = "slow" /\ form.codec = "vp9"
    /\ flagValues(runs[1].args, "-c:v") = {"libx264"}
    /\ flagValues(runs[1].args, "-crf") = {"26"}

(* C21.  An entry enters the store only in the step in which a request    *)
(* whose transcode succeeded passes validation and answers in UI mode; a   *)
(* request that fails or answers in API mode inserts nothing.  A stored    *)
(* entry is never changed or removed.  /dl and /meta answer 404 for an id  *)
(* that is not in the store and leave the store as it is.                  *)
C21_StoreOnlyGrows ==
    [][/\ \A id \in DOMAIN store :
              id \in DOMAIN store' /\ store'[id] = store[id]
       /\ store' # store =>
              \E r \in DOMAIN conn :
                  /\ conn[r].pc = "validating" /\ conn'[r].pc = "done"
                  /\ ~conn[r].api
                  /\ conn'[r].resp.status = 200 /\ conn'[r].resp.kind = "ui"
       /\ \A r \in DOMAIN conn :
              (conn[r].pc # "done" /\ conn'[r].pc = "done"
                  /\ conn'[r].resp.kind # "ui") => store' = store
       /\ resp' # resp =>
              /\ store' = store
              /\ resp'.meta.id \notin DOMAIN store => resp'.status = 404
      ]_vars

C21_Witness ==
    /\ pc = "serving"
    /\ Cardinality(DOMAIN store) = 1
    /\ \E r \in DOMAIN conn :
          conn[r].pc = "done" /\ conn[r].resp.status = 200 /\ conn[r].resp.kind = "api"
    /\ resp.status = 404 /\ resp.meta.id = 2

(* C22.  While a request's transcoder runs or its output is validated, the *)
(* file at its input path is the upload this request saved, and while its  *)
(* output is validated the file at its output path is the one its own      *)
(* transcoder wrote: no other request has written or removed either.       *)
C22_NoSharedFiles ==
    \A r \in DOMAIN conn :
        LET inPath == pathString(inPathOf(conn[r].form))
            outPath == outPathOf(conn[r].form)
        IN  /\ conn[r].pc \in {"running", "validating"} =>
                  inPath \in DOMAIN fs /\ fs[inPath] = r
            /\ conn[r].pc = "validating" =>
                  outPath \in DOMAIN fs /\ fs[outPath] = r

\* C30: for every requested mode and every byte count the Go server and the
\* Node server resolve the same final mode and apply the small-file override
\* (which forces the codec to h264) to the same files
C30_SameSizeDecisions ==
    (modeDecider # "" /\ node.decided) =>
        /\ node.speedMode = opts.SpeedMode
        /\ node.codec = opts.Codec

(* C28.  In the size-band server every transcoder that is started runs     *)
(* with the quality parameter, the preset and the audio bitrate that       *)
(* adjustForFileSize left in the handler's opts: the normalize of          *)
(* runFFmpeg changes none of the three, and a -crf, -preset or -b:a of the *)
(* argument list carries the adjusted value.                               *)
C28_AdjustedValuesRun ==
    \A i \in DOMAIN runs :
        (pc \in {"polling", "done"} /\ runs[i].started) =>
            /\ runs[i].o.CRF = opts.CRF
            /\ runs[i].o.Preset = opts.Preset
            /\ runs[i].o.AB = opts.AB
            /\ flagValues(runs[i].args, "-crf") \subseteq {ToString(opts.CRF)}
            /\ flagValues(runs[i].args, "-preset") \subseteq {opts.Preset}
            /\ flagValues(runs[i].args, "-b:a") \subseteq {opts.AB}

(* C24.  In the size-band server the output file is served and the input   *)
(* file is removed only after the goroutine's runFFmpeg has returned: once *)
(* the handler has answered 200 or removed the input, no transcoder is     *)
(* running and none is started afterwards.                                 *)
C24_ServedAfterExit ==
    (pc = "done" /\ (resp.status = 200 \/ bandInPath \notin DOMAIN fs)) =>
        finished

=============================================================================
